---- MODULE Spec2Model ----
(***************************************************************************)
(* Model of the patient record service of src/main.py: the JSON file      *)
(* pateints.json (the store), the pydantic models Pateint and              *)
(* PateintUpdate, and the HTTP handlers that load the file, change the     *)
(* loaded mapping and save it back.                                        *)
(*                                                                         *)
(* Numbers: height is in cm and weight in kg; the model draws them from    *)
(* whole numbers.  bmi is a float rounded to 2 decimals in the code and is *)
(* kept here in hundredths (22.22 is 2222), so that the comparisons with   *)
(* 18.5, 24.9, 25 and 29.9 are comparisons with 1850, 2490, 2500, 2990.    *)
(***************************************************************************)
EXTENDS Integers, FiniteSets, Sequences, TLC

VARIABLES store, keys, prev, req, status, resp, created, after_delete,
          disk, thread, bmi_in, verdict_out

vars == <<store, keys, prev, req, status, resp, created, after_delete,
          disk, thread, bmi_in, verdict_out>>

(***************************************************************************)
(* Bounds and input sets                                                   *)
(***************************************************************************)

\* Largest bmi, in hundredths, that the classification is applied to alone.
MaxBmi == 3100

\* Path and body ids the requests use.
Ids == {"P001", "P002"}

\* The fields of a stored value the handlers read by name.
Fields == {"name", "city", "age", "gender", "height", "weight"}

\* The computed fields of Pateint.
Computed == {"bmi", "verdict"}

\* Literal['male', 'female', 'others'] of Pateint.gender and PateintUpdate.gender.
Genders == {"male", "female", "others"}

\* The dict with no key.
EmptyDict == [k \in {} |-> 0]

(***************************************************************************)
(* Pateint: validation and computed fields                                 *)
(***************************************************************************)

\* round(x, 2) of the quotient num/den given in hundredths: nearest, ties to even.
Round2(num, den) ==
    LET q == num \div den
        r == num % den
    IN  IF 2 * r < den THEN q
        ELSE IF 2 * r > den THEN q + 1
        ELSE IF q % 2 = 0 THEN q ELSE q + 1

\* Pateint.bmi: round(weight / ((height / 100) ** 2), 2), in hundredths.
bmi(p) == Round2(1000000 * p.weight, p.height * p.height)

\* A chain whose Normal weight band runs up to 25, leaving no gap.
verdict_without_gap(b) ==
    IF b < 1850 THEN "Underweight"
    ELSE IF b < 2500 THEN "Normal weight"
    ELSE IF b < 2990 THEN "Overweight"
    ELSE "Obesity"

\* The verdict chain of Pateint.verdict on a bmi in hundredths.
verdict(b) ==
    IF b < 1850 THEN "Underweight"
    ELSE IF 1850 <= b /\ b < 2490 THEN "Normal weight"
    ELSE IF 2500 <= b /\ b < 2990 THEN "Overweight"
    ELSE "Obesity"

\* A validation without gt=0 on height.
ValidPateint_height_unchecked(d) ==
    /\ (Fields \cup {"id"}) \subseteq DOMAIN d
    /\ d.gender \in Genders
    /\ d.weight > 0

\* Whether Pateint(**d) validates: every field is required, gender is one of
\* the literals, height and weight are gt=0; age is an int with no bound;
\* keys that are no field of the model are ignored.
ValidPateint(d) ==
    /\ (Fields \cup {"id"}) \subseteq DOMAIN d
    /\ d.gender \in Genders
    /\ d.height > 0
    /\ d.weight > 0

\* An object built with height and weight taken from each other's key.
Pateint_height_weight_swapped(d) ==
    [k \in Fields \cup {"id"} |->
        IF k = "height" THEN d.weight ELSE IF k = "weight" THEN d.height ELSE d[k]]

\* The object Pateint(**d) of a d that validates: the declared fields of d.
Pateint(d) == [k \in Fields \cup {"id"} |-> d[k]]

\* A dump that ignores exclude.
model_dump_nothing_excluded(p, exclude) ==
    [k \in DOMAIN p \cup Computed |->
        IF k = "bmi" THEN bmi(p)
        ELSE IF k = "verdict" THEN verdict(bmi(p))
        ELSE p[k]]

\* A dump that leaves the computed fields out.
model_dump_declared_only(p, exclude) == [k \in DOMAIN p \ exclude |-> p[k]]

\* p.model_dump(exclude=exclude): the declared and the computed fields of p
\* but those excluded.
model_dump(p, exclude) ==
    [k \in (DOMAIN p \cup Computed) \ exclude |->
        IF k = "bmi" THEN bmi(p)
        ELSE IF k = "verdict" THEN verdict(bmi(p))
        ELSE p[k]]

(***************************************************************************)
(* PateintUpdate: a patch is [given, nulls]: given maps the fields the     *)
(* body sets to a value, nulls are the fields the body sets to null; every *)
(* other field is unset.                                                   *)
(***************************************************************************)

\* Whether PateintUpdate validates the body: age, height, weight gt=0 and
\* gender one of the literals, when given; null is allowed for every field.
ValidPateintUpdate(patch) ==
    /\ DOMAIN patch.given \subseteq Fields
    /\ patch.nulls \subseteq Fields \ DOMAIN patch.given
    /\ "age" \in DOMAIN patch.given => patch.given.age > 0
    /\ "gender" \in DOMAIN patch.given => patch.given.gender \in Genders
    /\ "height" \in DOMAIN patch.given => patch.given.height > 0
    /\ "weight" \in DOMAIN patch.given => patch.given.weight > 0

\* A loop without the `is not None` test: a null of the body replaces the
\* existing value, which leaves the field without a value.
MergePartial_null_assigned(existing, patch) ==
    [k \in (DOMAIN existing \cup DOMAIN patch.given) \ patch.nulls |->
        IF k \in DOMAIN patch.given THEN patch.given[k] ELSE existing[k]]

\* The loop over pateint_update.model_dump(exclude_unset=True): every key of
\* the dump whose value is not None is assigned into the existing dict.
MergePartial(existing, patch) ==
    [k \in DOMAIN existing \cup DOMAIN patch.given |->
        IF k \in DOMAIN patch.given THEN patch.given[k] ELSE existing[k]]

\* d with d[key] = value assigned.
DictSet(d, key, value) ==
    [k \in DOMAIN d \cup {key} |-> IF k = key THEN value ELSE d[k]]

\* d with key deleted.
DictDel(d, key) == [k \in DOMAIN d \ {key} |-> d[k]]

(***************************************************************************)
(* The handlers, as functions of the loaded file content.  Each yields the *)
(* status and body of the response and `file`, the content of              *)
(* pateints.json when the request is over: what save_data wrote, or the    *)
(* loaded content when the handler raised before save_data.                *)
(***************************************************************************)

Response(code, body, file) == [status |-> code, body |-> body, file |-> file]

\* GET /
hello(data) == Response(200, [message |-> "Hello, World!"], data)

\* GET /about
about(data) == Response(200, [message |-> "This is a simple FastAPI application."], data)

\* GET /view
view(data) == Response(200, data, data)

\* GET /pateints/{pateint_id}
view_pateint(data, pateint_id) ==
    IF pateint_id \in DOMAIN data
    THEN Response(200, data[pateint_id], data)
    ELSE Response(404, [detail |-> "Pateint not found"], data)

\* The response to an exception that leaves the handler and is no
\* HTTPException: 500; `raised` names the exception, which goes to the server
\* log, and file is the loaded content, since save_data was not reached.
ServerError(exception, data) ==
    Response(500, [detail |-> "Internal Server Error", raised |-> exception], data)

\* data[key] = p.model_dump(exclude=['id']), save_data(data) and the response
\* of status code.  The dump evaluates p.bmi, whose division raises
\* ZeroDivisionError when p.height is 0.
save_dump(data, key, p, code, message) ==
    IF p.height = 0
    THEN ServerError("ZeroDivisionError", data)
    ELSE Response(code, [message |-> message],
                  DictSet(data, key, model_dump(p, {"id"})))

\* A create that saves the new value alone.
create_pateint_alone(data, pateint) ==
    IF pateint.id \in DOMAIN data
    THEN [status |-> 400, body |-> [detail |-> "Pateint with this ID already exists"],
          file |-> data]
    ELSE [status |-> 201, body |-> [message |-> "Pateint created successfully"],
          file |-> [k \in {pateint.id} |-> model_dump(pateint, {"id"})]]

\* A create without the test for an existing id.
create_pateint_overwrite(data, pateint) ==
    [status |-> 201, body |-> [message |-> "Pateint created successfully"],
     file |-> DictSet(data, pateint.id, model_dump(pateint, {"id"}))]

\* POST /create, entered with the validated Pateint object.
create_pateint(data, pateint) ==
    IF pateint.id \in DOMAIN data
    THEN Response(400, [detail |-> "Pateint with this ID already exists"], data)
    ELSE save_dump(data, pateint.id, pateint, 201, "Pateint created successfully")

\* An edit that saves the merged dict and validates it afterwards.
update_pateint_save_first(data, pateint_id, pateint_update) ==
    IF pateint_id \notin DOMAIN data
    THEN [status |-> 404, body |-> [detail |-> "Pateint not found"], file |-> data]
    ELSE LET merged == MergePartial(data[pateint_id], pateint_update)
             saved == DictSet(data, pateint_id, merged)
         IN  IF ~ValidPateint(DictSet(merged, "id", pateint_id))
             THEN [status |-> 500, body |-> [detail |-> "Internal Server Error"],
                   file |-> saved]
             ELSE [status |-> 200, body |-> [message |-> "Pateint updated successfully"],
                   file |-> saved]

\* An edit that saves the merged dict as it is once it validates.
update_pateint_merged_saved(data, pateint_id, pateint_update) ==
    IF pateint_id \notin DOMAIN data
    THEN [status |-> 404, body |-> [detail |-> "Pateint not found"], file |-> data]
    ELSE LET merged == MergePartial(data[pateint_id], pateint_update)
         IN  IF ~ValidPateint(DictSet(merged, "id", pateint_id))
             THEN [status |-> 500, body |-> [detail |-> "Internal Server Error"],
                   file |-> data]
             ELSE [status |-> 200, body |-> [message |-> "Pateint updated successfully"],
                   file |-> DictSet(data, pateint_id, merged)]

\* An edit that keeps the stored value and ignores the body.
update_pateint_ignore_body(data, pateint_id, pateint_update) ==
    IF pateint_id \notin DOMAIN data
    THEN [status |-> 404, body |-> [detail |-> "Pateint not found"], file |-> data]
    ELSE [status |-> 200, body |-> [message |-> "Pateint updated successfully"],
          file |-> data]

\* PUT /edit/{pateint_id}, entered with the validated PateintUpdate object.
\* Pateint(**existing_pateint_info) raises pydantic's ValidationError inside
\* the handler when the merged dict does not validate; nothing catches it, so
\* the server answers 500 and save_data is not reached.
update_pateint(data, pateint_id, pateint_update) ==
    IF pateint_id \notin DOMAIN data
    THEN Response(404, [detail |-> "Pateint not found"], data)
    ELSE LET existing_pateint_info ==
                 DictSet(MergePartial(data[pateint_id], pateint_update),
                         "id", pateint_id)
         IN  IF ~ValidPateint(existing_pateint_info)
             THEN ServerError("ValidationError", data)
             ELSE save_dump(data, pateint_id, Pateint(existing_pateint_info),
                            200, "Pateint updated successfully")

\* A delete that answers without save_data.
delete_pateint_not_saved(data, pateint_id) ==
    IF pateint_id \notin DOMAIN data
    THEN [status |-> 404, body |-> [detail |-> "Pateint not found"], file |-> data]
    ELSE [status |-> 200, body |-> [message |-> "Pateint deleted successfully"],
          file |-> data]

\* A delete that answers 200 for an id that is not stored.
delete_pateint_idempotent(data, pateint_id) ==
    [status |-> 200, body |-> [message |-> "Pateint deleted successfully"],
     file |-> DictDel(data, pateint_id)]

\* DELETE /delete/{pateint_id}
delete_pateint(data, pateint_id) ==
    IF pateint_id \notin DOMAIN data
    THEN Response(404, [detail |-> "Pateint not found"], data)
    ELSE Response(200, [message |-> "Pateint deleted successfully"],
                  DictDel(data, pateint_id))

\* s in reverse order.
Reverse(s) == [i \in 1..Len(s) |-> s[Len(s) + 1 - i]]

\* The elements of s in non-decreasing order of field, elements of equal
\* field in the order they have in s.
RECURSIVE StableSort(_, _)
StableSort(s, field) ==
    IF s = <<>> THEN <<>>
    ELSE LET x == Head(s)
             rest == StableSort(Tail(s), field)
         IN  SelectSeq(rest, LAMBDA y : y[field] < x[field])
             \o <<x>> \o
             SelectSeq(rest, LAMBDA y : y[field] >= x[field])

\* A descending sort that is the ascending sort reversed.
sorted_reversed_after(s, field, reverse) ==
    IF reverse THEN Reverse(StableSort(s, field)) ELSE StableSort(s, field)

\* sorted(s, key=lambda x: x[field], reverse=reverse): with reverse the list
\* is reversed, sorted and reversed again, which keeps elements of equal key
\* in the order they have in s.
sorted(s, field, reverse) ==
    IF reverse THEN Reverse(StableSort(Reverse(s), field)) ELSE StableSort(s, field)

\* data.values(): the values in the order of the keys of the loaded dict.
values(data, key_order) == [i \in 1..Len(key_order) |-> data[key_order[i]]]

\* A sort that computes the bmi of a value that has none before it compares.
sort_patients_computing_bmi(data, key_order, sort_by, order) ==
    IF sort_by \notin {"height", "weight", "bmi"}
    THEN [status |-> 400, body |-> [detail |-> "Invalid field"], file |-> data]
    ELSE IF order \notin {"asc", "desc"}
    THEN [status |-> 400, body |-> [detail |-> "Invalid order"], file |-> data]
    ELSE LET vals == values(data, key_order)
             with_bmi == [i \in 1..Len(vals) |->
                             IF "bmi" \in DOMAIN vals[i] \/ vals[i].height <= 0
                             THEN vals[i]
                             ELSE DictSet(vals[i], "bmi", bmi(vals[i]))]
         IN  IF \E i \in 1..Len(vals) : sort_by \notin DOMAIN with_bmi[i]
             THEN [status |-> 500, body |-> [detail |-> "Sorting failed"], file |-> data]
             ELSE [status |-> 200, body |-> sorted(with_bmi, sort_by, order = "desc"),
                   file |-> data]

\* GET /sort.  The key function raises KeyError on a value without the
\* field; the handler answers that with 500.
sort_patients(data, key_order, sort_by, order) ==
    IF sort_by \notin {"height", "weight", "bmi"}
    THEN Response(400, [detail |-> "Invalid field"], data)
    ELSE IF order \notin {"asc", "desc"}
    THEN Response(400, [detail |-> "Invalid order"], data)
    ELSE LET sort_order == IF order = "desc" THEN FALSE ELSE TRUE
             vals == values(data, key_order)
         IN  IF \E i \in 1..Len(vals) : sort_by \notin DOMAIN vals[i]
             THEN Response(500, [detail |-> "Sorting failed"], data)
             ELSE Response(200, sorted(vals, sort_by, ~sort_order), data)

\* The 422 FastAPI answers when the request body does not validate; the
\* handler is not entered.
Unprocessable(data) == Response(422, [detail |-> "validation error"], data)

(***************************************************************************)
(* Request inputs                                                          *)
(***************************************************************************)

Harsh == [name |-> "Harsh", city |-> "Delhi", age |-> 30, gender |-> "male",
          height |-> 180, weight |-> 81]

Asha == [name |-> "Asha", city |-> "Pune", age |-> 0, gender |-> "others",
         height |-> 150, weight |-> 50]

\* Bodies of POST /create, without the id: two that validate (one of them
\* with age 0) and four that do not.
Bodies ==
    { Harsh,
      Asha,
      [Harsh EXCEPT !.gender = "other"],
      [Harsh EXCEPT !.height = 0],
      [Asha EXCEPT !.weight = -5],
      [k \in Fields \ {"city"} |-> Harsh[k]] }

Patch(given, nulls) == [given |-> given, nulls |-> nulls]

\* Bodies of PUT /edit: the empty body, the body of nulls, one field alone
\* (name, city, height, weight), several fields with nulls, every field, and
\* three that do not validate.
Patches ==
    { Patch(EmptyDict, {}),
      Patch(EmptyDict, Fields),
      Patch([name |-> "Asha"], {}),
      Patch([city |-> "Pune"], {}),
      Patch([height |-> 150], {}),
      Patch([weight |-> 50], {}),
      Patch([height |-> 180, weight |-> 81], {"city", "age"}),
      Patch(Harsh, {}),
      Patch([height |-> 0], {}),
      Patch([age |-> 0], {}),
      Patch([gender |-> "other"], {}) }

\* Query strings of GET /sort: every field and order the handler accepts, a
\* field and an order it does not.
Queries ==
    [sort_by : {"height", "weight", "bmi"}, order : {"asc", "desc"}]
    \cup { [sort_by |-> "age", order |-> "asc"],
           [sort_by |-> "height", order |-> "up"] }

Request(op, id, body) == [op |-> op, id |-> id, body |-> body]

(***************************************************************************)
(* State: store is the content of pateints.json; req, status and resp are  *)
(* the last request and its response; prev is the content of the file when *)
(* that request arrived.  created is a history variable: it maps an id to  *)
(* the body of the POST /create that created it, for as long as no PUT or  *)
(* DELETE of that id has succeeded since.  keys is the order of the keys   *)
(* in the file, which json.load and json.dump keep.  after_delete is a     *)
(* history variable: the id that the request before the last one deleted   *)
(* with success, or "".                                                    *)
(***************************************************************************)

\* The set of elements of the sequence s.
Range(s) == { s[i] : i \in DOMAIN s }

\* The key order of a dict that had key order key_order and now has the
\* content file: a deleted key leaves, an assigned key keeps its place, a new
\* key goes last.
KeyOrder(key_order, file) ==
    LET kept == SelectSeq(key_order, LAMBDA k : k \in DOMAIN file)
        new == DOMAIN file \ Range(key_order)
    IN  IF new = {} THEN kept ELSE Append(kept, CHOOSE k \in new : TRUE)

\* The history of creations after `request` was answered with `code`.
Remember(request, code) ==
    IF request.op = "create" /\ code = 201
    THEN DictSet(created, request.id, request.body)
    ELSE IF request.op \in {"edit", "delete"} /\ code = 200
    THEN DictDel(created, request.id)
    ELSE created

\* One request served from load_data to the response: r is the handler's
\* result on the loaded file.
Serve(request, r) ==
    /\ prev' = store
    /\ req' = request
    /\ status' = r.status
    /\ resp' = r.body
    /\ store' = r.file
    /\ keys' = KeyOrder(keys, r.file)
    /\ created' = Remember(request, r.status)
    /\ after_delete' = IF req.op = "delete" /\ status = 200 THEN req.id ELSE ""
    /\ UNCHANGED <<disk, thread>>
    /\ UNCHANGED <<bmi_in, verdict_out>>

Hello == Serve(Request("hello", "", EmptyDict), hello(store))

About == Serve(Request("about", "", EmptyDict), about(store))

View == Serve(Request("view", "", EmptyDict), view(store))

ViewPateint ==
    \E id \in Ids :
        Serve(Request("view_pateint", id, EmptyDict), view_pateint(store, id))

Create ==
    \E id \in Ids, body \in Bodies :
        LET d == DictSet(body, "id", id)
        IN  Serve(Request("create", id, body),
                  IF ValidPateint(d)
                  THEN create_pateint(store, Pateint(d))
                  ELSE Unprocessable(store))

Edit ==
    \E id \in Ids, patch \in Patches :
        Serve(Request("edit", id, patch),
              IF ValidPateintUpdate(patch)
              THEN update_pateint(store, id, patch)
              ELSE Unprocessable(store))

Delete ==
    \E id \in Ids :
        Serve(Request("delete", id, EmptyDict), delete_pateint(store, id))

Sort ==
    \E q \in Queries :
        Serve(Request("sort", "", q), sort_patients(store, keys, q.sort_by, q.order))

NoRequest == Request("none", "", EmptyDict)

\* The worker threads that run the handlers.
Threads == {"t1", "t2"}

\* A thread that has served no request.
IdleThread ==
    [pc |-> "idle", served |-> 0, req |-> NoRequest, data |-> EmptyDict,
     keys |-> <<>>, out |-> EmptyDict, status |-> 0, loaded_at |-> 0,
     saved_at |-> 0]

\* A pateints.json that holds a JSON object and was never written.
WholeFile == [state |-> "json", version |-> 0]

\* The service starts on an empty pateints.json.
Init ==
    /\ store = EmptyDict
    /\ keys = <<>>
    /\ prev = EmptyDict
    /\ req = NoRequest
    /\ status = 0
    /\ resp = EmptyDict
    /\ created = EmptyDict
    /\ after_delete = ""
    /\ disk = WholeFile
    /\ thread = [t \in Threads |-> IdleThread]
    /\ bmi_in = 0
    /\ verdict_out = ""

Next == Hello \/ About \/ View \/ ViewPateint \/ Sort \/ Create \/ Edit \/ Delete

Spec == Init /\ [][Next]_vars

\* Values of a pateints.json that the service did not write itself: the six
\* fields without bmi and verdict, one with height 0 and one with a negative
\* height.
SixFields == { Harsh, [Harsh EXCEPT !.height = 0], [Harsh EXCEPT !.height = -150] }

\* The service starts on a pateints.json that is empty or holds one such
\* value under P001.
InitFile ==
    /\ store \in {EmptyDict} \cup { [k \in {"P001"} |-> v] : v \in SixFields }
    /\ keys = IF store = EmptyDict THEN <<>> ELSE <<"P001">>
    /\ prev = store
    /\ req = NoRequest
    /\ status = 0
    /\ resp = EmptyDict
    /\ created = EmptyDict
    /\ after_delete = ""
    /\ disk = WholeFile
    /\ thread = [t \in Threads |-> IdleThread]
    /\ bmi_in = 0
    /\ verdict_out = ""

SpecFile == InitFile /\ [][Next]_vars

(***************************************************************************)
(* Requests served by two threads at once.  FastAPI runs the handlers,     *)
(* which are plain functions, in a thread pool, and nothing orders their   *)
(* load_data and save_data.  A thread is at "idle", at "loaded" (load_data *)
(* has returned) or at "opened" (save_data has opened the file for         *)
(* writing, which truncates it).  disk.state tells whether the file holds  *)
(* a JSON object ("json", then store is that object), nothing              *)
(* ("truncated") or bytes of two writes ("corrupt"); disk.version counts   *)
(* the writes.  Of a thread, data and keys are what load_data returned,    *)
(* out is the dict handed to save_data, loaded_at and saved_at are the     *)
(* versions of the file it loaded and wrote.                               *)
(***************************************************************************)

\* Largest number of requests one thread serves.
MaxServed == 1

\* The requests the threads serve; every body passes its validation.
ConcRequests ==
    { Request("create", id, body) : id \in Ids, body \in {Harsh, Asha} }
    \cup { Request("edit", "P001", Patch([city |-> "Pune"], {})),
           Request("delete", "P001", EmptyDict),
           Request("view_pateint", "P001", EmptyDict) }

\* The handler of the route of request, on the loaded dict.
handle(request, data) ==
    CASE request.op = "create" ->
            create_pateint(data, Pateint(DictSet(request.body, "id", request.id)))
      [] request.op = "edit" -> update_pateint(data, request.id, request.body)
      [] request.op = "delete" -> delete_pateint(data, request.id)
      [] OTHER -> view_pateint(data, request.id)

\* Whether the handler reached save_data.
Saves(request, r) ==
    \/ request.op = "create" /\ r.status = 201
    \/ request.op \in {"edit", "delete"} /\ r.status = 200

\* A handler that works on the content the file has when it decides.
data_of_request_current(loaded, current) == current

\* The dict a handler works on: the one load_data returned when the request
\* began, whatever the file holds by now.
data_of_request(loaded, current) == loaded

\* load_data: json.load raises JSONDecodeError on a file that holds no JSON
\* object, and the request is answered 500.
Load ==
    \E t \in Threads, r \in ConcRequests :
        /\ thread[t].pc = "idle"
        /\ thread[t].served < MaxServed
        /\ thread' =
              [thread EXCEPT ![t] =
                  IF disk.state = "json"
                  THEN [@ EXCEPT !.pc = "loaded", !.req = r, !.data = store,
                                 !.keys = keys, !.out = EmptyDict, !.status = 0,
                                 !.loaded_at = disk.version, !.saved_at = 0]
                  ELSE [@ EXCEPT !.served = @ + 1, !.req = r, !.data = EmptyDict,
                                 !.keys = <<>>, !.out = EmptyDict, !.status = 500,
                                 !.loaded_at = disk.version, !.saved_at = 0]]
        /\ UNCHANGED <<store, keys, disk, prev, req, status, resp, created,
                       after_delete, bmi_in, verdict_out>>

\* The handler from load_data to its response or to the open(..., 'w') of
\* save_data, which empties the file.
Handle ==
    \E t \in Threads :
        /\ thread[t].pc = "loaded"
        /\ LET r == handle(thread[t].req, data_of_request(thread[t].data, store))
           IN  IF Saves(thread[t].req, r)
               THEN /\ thread' = [thread EXCEPT ![t] =
                                     [@ EXCEPT !.pc = "opened", !.out = r.file,
                                               !.status = r.status]]
                    /\ disk' = [disk EXCEPT !.state = "truncated"]
                    /\ store' = EmptyDict
                    /\ keys' = <<>>
               ELSE /\ thread' = [thread EXCEPT ![t] =
                                     [@ EXCEPT !.pc = "idle", !.served = @ + 1,
                                               !.status = r.status]]
                    /\ UNCHANGED <<disk, store, keys>>
        /\ UNCHANGED <<prev, req, status, resp, created, after_delete,
                       bmi_in, verdict_out>>

\* json.dump and the close of the file: the bytes go to the start of the
\* file.  On a file another thread has written since this thread emptied it,
\* they replace its content or leave its tail behind them.
Write ==
    \E t \in Threads :
        /\ thread[t].pc = "opened"
        /\ \E outcome \in IF disk.state = "truncated" THEN {"json"}
                                                      ELSE {"json", "corrupt"} :
            /\ disk' = [state |-> outcome, version |-> disk.version + 1]
            /\ store' = IF outcome = "json" THEN thread[t].out ELSE EmptyDict
            /\ keys' = IF outcome = "json"
                       THEN KeyOrder(thread[t].keys, thread[t].out)
                       ELSE <<>>
        /\ thread' = [thread EXCEPT ![t] =
                         [@ EXCEPT !.pc = "idle", !.served = @ + 1,
                                   !.saved_at = disk.version + 1]]
        /\ UNCHANGED <<prev, req, status, resp, created, after_delete,
                       bmi_in, verdict_out>>

\* The threads start on an empty file or on one that holds Harsh under P001.
InitConc ==
    /\ store \in { EmptyDict,
                   [k \in {"P001"} |->
                       model_dump(Pateint(DictSet(Harsh, "id", "P001")), {"id"})] }
    /\ keys = IF store = EmptyDict THEN <<>> ELSE <<"P001">>
    /\ prev = store
    /\ req = NoRequest
    /\ status = 0
    /\ resp = EmptyDict
    /\ created = EmptyDict
    /\ after_delete = ""
    /\ disk = WholeFile
    /\ thread = [t \in Threads |-> IdleThread]
    /\ bmi_in = 0
    /\ verdict_out = ""

NextConc == Load \/ Handle \/ Write

SpecConc == InitConc /\ [][NextConc]_vars

(***************************************************************************)
(* GET /sort alone, on every file of up to MaxRecords values that create   *)
(* wrote, in every key order.                                              *)
(***************************************************************************)

\* Largest number of values in a file that is sorted.
MaxRecords == 3

IdPool == <<"P001", "P002", "P003", "P004", "P005">>

SortIds == { IdPool[i] : i \in 1..MaxRecords }

Ravi == [Harsh EXCEPT !.name = "Ravi"]

Meera == [Asha EXCEPT !.name = "Meera", !.weight = 81]

\* What create stores for four bodies: Harsh and Ravi agree in height, weight
\* and bmi, Asha and Meera in height, Meera and Harsh in weight.
SortValues ==
    { model_dump(Pateint(DictSet(b, "id", "")), {"id"}) : b \in {Harsh, Ravi, Asha, Meera} }

\* The sequences of distinct ids of SortIds.
KeyOrders ==
    { k \in UNION { [1..n -> SortIds] : n \in 0..MaxRecords } :
        \A i, j \in DOMAIN k : i # j => k[i] # k[j] }

InitSort ==
    /\ keys \in KeyOrders
    /\ store \in [Range(keys) -> SortValues]
    /\ prev = store
    /\ req = NoRequest
    /\ status = 0
    /\ resp = EmptyDict
    /\ created = EmptyDict
    /\ after_delete = ""
    /\ disk = WholeFile
    /\ thread = [t \in Threads |-> IdleThread]
    /\ bmi_in = 0
    /\ verdict_out = ""

SpecSort == InitSort /\ [][Sort]_vars

(***************************************************************************)
(* The classification alone, on every bmi up to MaxBmi hundredths.         *)
(***************************************************************************)

InitClassify ==
    /\ store = EmptyDict
    /\ keys = <<>>
    /\ prev = EmptyDict
    /\ req = NoRequest
    /\ status = 0
    /\ resp = EmptyDict
    /\ created = EmptyDict
    /\ after_delete = ""
    /\ disk = WholeFile
    /\ thread = [t \in Threads |-> IdleThread]
    /\ bmi_in \in 0..MaxBmi
    /\ verdict_out = ""

Classify ==
    /\ verdict_out = ""
    /\ verdict_out' = verdict(bmi_in)
    /\ UNCHANGED <<store, keys, prev, req, status, resp, created, after_delete,
                   disk, thread, bmi_in>>

SpecClassify == InitClassify /\ [][Classify]_vars

(***************************************************************************)
(* Claims                                                                  *)
(***************************************************************************)

\* The enum the data model of the specification gives for gender.
SpecGenders == {"male", "female", "other"}

\* C1: starting from an empty store, every record in the persisted store has
\* height > 0, weight > 0, age > 0 and a gender of {male, female, other}.
\* Pateint.age has no gt=0 (PateintUpdate.age has), so POST /create persists
\* a record with age 0; the literals of the code are male, female, others.
C1_PersistedRecordsValid ==
    \A id \in DOMAIN store :
        /\ store[id].height > 0
        /\ store[id].weight > 0
        /\ store[id].age > 0
        /\ store[id].gender \in SpecGenders

\* C2 as stated: every stored value holds only the six fields; bmi and
\* verdict are never written to the store.
C2_OnlySixFieldsStored ==
    \A id \in DOMAIN store : DOMAIN store[id] = Fields

\* C2 as amended: starting from an empty store, every stored value holds the
\* six fields height, weight, age, city, name, gender and, with them, the
\* derived fields bmi and verdict, which create and edit both write.
C2_StoredLayout ==
    \A id \in DOMAIN store : DOMAIN store[id] = Fields \cup Computed

\* A value written by create and written again by an edit.
C2_Witness ==
    /\ req.op = "edit"
    /\ status = 200
    /\ req.id \in DOMAIN prev
    /\ "verdict" \in DOMAIN prev[req.id]
    /\ "verdict" \in DOMAIN store[req.id]

\* The last request was a PUT /edit that entered the handler (its body passed
\* PateintUpdate) for an id that was stored.
EditOfExisting ==
    /\ req.op = "edit"
    /\ ValidPateintUpdate(req.body)
    /\ req.id \in DOMAIN prev

\* The dict that PUT /edit hands to Pateint: the stored value with the body
\* merged into it and the path id attached.
MergedOfLastEdit ==
    DictSet(MergePartial(prev[req.id], req.body), "id", req.id)

\* C3: a successful PUT /edit/{id} stores, for each of the six fields, the
\* value of the patch when the patch gives the field a non-null value and
\* the value stored before when the field is absent from the patch or null.
C3_EditMergesFieldwise ==
    (EditOfExisting /\ status = 200) =>
        \A k \in Fields :
            store[req.id][k] =
                IF k \in DOMAIN req.body.given
                THEN req.body.given[k]
                ELSE prev[req.id][k]

\* An edit that sets height and weight, names city and age as null and does
\* not mention name and gender, on a record all of whose fields differ from
\* the patch.
C3_Witness ==
    /\ EditOfExisting
    /\ status = 200
    /\ req.body = Patch([height |-> 180, weight |-> 81], {"city", "age"})
    /\ prev[req.id].height = 150
    /\ prev[req.id].weight = 50
    /\ prev[req.id].city = "Pune"
    /\ prev[req.id].name = "Asha"
    /\ store[req.id].height = 180

\* C4: when the merged record fails validation, PUT /edit/{id} fails and the
\* persisted store after the request is identical to the store before it.
C4_FailedMergeLeavesStore ==
    (EditOfExisting /\ ~ValidPateint(MergedOfLastEdit)) =>
        (status # 200 /\ store = prev)

\* An edit of the city of a stored record whose height is 0: the merged
\* dict differs from the stored value and is not saved.
C4_Witness ==
    /\ EditOfExisting
    /\ ~ValidPateint(MergedOfLastEdit)
    /\ prev[req.id].height = 0
    /\ req.body = Patch([city |-> "Pune"], {})
    /\ MergedOfLastEdit.city # prev[req.id].city
    /\ store = prev

\* C5: a PUT /edit/{id} on an existing id whose merged record fails
\* validation is answered with status 422 or 400.  The ValidationError is
\* raised inside the handler and not caught, so the answer is 500.
C5_FailedMergeIs4xx ==
    (EditOfExisting /\ ~ValidPateint(MergedOfLastEdit)) => status \in {400, 422}

\* C6: POST /create with an id that is already a key of the store fails with
\* status 400 and leaves the persisted store unchanged, the value stored
\* under the id included.  (The 400 is the handler's answer; a body that does
\* not pass Pateint is answered 422 before the handler runs, and the store is
\* unchanged then as well.)
C6_DuplicateCreateConflicts ==
    (req.op = "create" /\ req.id \in DOMAIN prev) =>
        /\ store = prev
        /\ store[req.id] = prev[req.id]
        /\ status \in {400, 422}
        /\ ValidPateint(DictSet(req.body, "id", req.id)) => status = 400

\* A create of a valid body, different from the stored one, under a stored id.
C6_Witness ==
    /\ req.op = "create"
    /\ req.id \in DOMAIN prev
    /\ req.body = Asha
    /\ prev[req.id].name = "Harsh"
    /\ status = 400

\* C7: GET /pateints/{id}, PUT /edit/{id} and DELETE /delete/{id} on an id
\* that is not a key of the store each fail with status 404 and leave the
\* persisted store unchanged.  (For PUT, the 404 is the handler's answer to a
\* body that passed PateintUpdate.)
C7_UnknownIdNotFound ==
    /\ (req.op \in {"view_pateint", "delete"} /\ req.id \notin DOMAIN prev) =>
            (status = 404 /\ store = prev)
    /\ (req.op = "edit" /\ ValidPateintUpdate(req.body) /\ req.id \notin DOMAIN prev) =>
            (status = 404 /\ store = prev)

\* A delete of an id that is not stored while another id is.
C7_Witness ==
    /\ req.op = "delete"
    /\ req.id \notin DOMAIN prev
    /\ DOMAIN prev # {}
    /\ status = 404

\* b is the quotient weight / (height/100)^2 of r in hundredths, rounded to
\* the nearest hundredth.
NearestHundredth(b, r) ==
    LET d == b * r.height * r.height - 1000000 * r.weight
    IN  2 * d <= r.height * r.height /\ 2 * (0 - d) <= r.height * r.height

\* C8: after a successful POST /create of r under an id that was not stored,
\* and with no PUT or DELETE of that id since, GET /pateints/{id} returns r's
\* name, city, age, gender, height and weight unchanged, together with the
\* bmi and the verdict derived from them.
C8_CreateGetRoundTrip ==
    (req.op = "view_pateint" /\ req.id \in DOMAIN created) =>
        /\ status = 200
        /\ DOMAIN resp = Fields \cup Computed
        /\ \A k \in Fields : resp[k] = created[req.id][k]
        /\ NearestHundredth(resp.bmi, created[req.id])
        /\ resp.verdict = verdict(resp.bmi)

\* A GET of the id under which Harsh was created, the only id stored.
C8_Witness ==
    /\ req.op = "view_pateint"
    /\ req.id \in DOMAIN created
    /\ created[req.id] = Harsh
    /\ resp.bmi = 2500
    /\ resp.verdict = "Overweight"
    /\ DOMAIN store = {req.id}

\* The last request was a PUT /edit with no field set to a value: a body with
\* no field, or with null fields only.
EmptyPatchOfExisting ==
    /\ EditOfExisting
    /\ DOMAIN req.body.given = {}
    /\ ValidPateint(DictSet(prev[req.id], "id", req.id))

\* C9 as stated: an empty patch on an existing record succeeds and the value
\* stored under the id afterwards equals the value stored before, for a store
\* value of the persisted layout (the six fields).
C9_EmptyPatchKeepsSixFieldValue ==
    (EmptyPatchOfExisting /\ DOMAIN prev[req.id] = Fields) =>
        (status = 200 /\ store[req.id] = prev[req.id])

\* C9 as amended: an empty patch on an existing valid record succeeds and
\* keeps each of the six fields; the value stored afterwards equals the value
\* stored before when that value was written by create or edit (the six
\* fields with bmi and verdict), while a value of six fields gains bmi and
\* verdict.
C9_EmptyPatchKeepsWrittenValue ==
    EmptyPatchOfExisting =>
        /\ status = 200
        /\ \A k \in Fields : store[req.id][k] = prev[req.id][k]
        /\ DOMAIN store[req.id] = Fields \cup Computed
        /\ DOMAIN prev[req.id] = Fields \cup Computed => store[req.id] = prev[req.id]

\* A body of six nulls on a value that create wrote.
C9_Witness ==
    /\ EmptyPatchOfExisting
    /\ req.body.nulls = Fields
    /\ DOMAIN prev[req.id] = Fields \cup Computed
    /\ status = 200

\* C10: the classification of a bmi at 2-decimal resolution is Underweight
\* below 18.5, Normal weight from 18.5 to below 24.9, Overweight from 25 to
\* below 29.9 and Obesity otherwise, the gap from 24.9 to below 25 included;
\* 18.49 is Underweight, 18.5 and 24.89 Normal weight, 24.9 Obesity, 25.0 and
\* 29.89 Overweight, 29.9 Obesity.
C10_ClassifyBands ==
    verdict_out # "" =>
        /\ verdict_out = "Underweight" <=> bmi_in < 1850
        /\ verdict_out = "Normal weight" <=> (1850 <= bmi_in /\ bmi_in < 2490)
        /\ verdict_out = "Overweight" <=> (2500 <= bmi_in /\ bmi_in < 2990)
        /\ verdict_out = "Obesity" <=>
               ((2490 <= bmi_in /\ bmi_in < 2500) \/ bmi_in >= 2990)
        /\ bmi_in = 1849 => verdict_out = "Underweight"
        /\ bmi_in \in {1850, 2489} => verdict_out = "Normal weight"
        /\ bmi_in \in {2490, 2990} => verdict_out = "Obesity"
        /\ bmi_in \in {2500, 2989} => verdict_out = "Overweight"

\* The classification of 24.9, in the gap.
C10_Witness == bmi_in = 2490 /\ verdict_out = "Obesity"

\* The last request was a GET /sort with a field and an order of the
\* enumerated sets.
SortRequest ==
    /\ req.op = "sort"
    /\ req.body.sort_by \in {"height", "weight", "bmi"}
    /\ req.body.order \in {"asc", "desc"}

\* The bijections of 1..n.
Perms(n) == { p \in [1..n -> 1..n] : \A i, j \in 1..n : i # j => p[i] # p[j] }

\* out holds the elements of in, each once, in non-decreasing (asc) or
\* non-increasing (desc) order of field, elements of equal field in the order
\* they have in in.
StablyOrdered(out, in, field, order) ==
    /\ Len(out) = Len(in)
    /\ \E p \in Perms(Len(in)) :
        /\ \A i \in 1..Len(in) : out[i] = in[p[i]]
        /\ \A i, j \in 1..Len(in) :
            i < j =>
                /\ order = "asc" => out[i][field] <= out[j][field]
                /\ order = "desc" => out[i][field] >= out[j][field]
                /\ out[i][field] = out[j][field] => p[i] < p[j]

\* C11: for field in {height, weight, bmi} and order in {asc, desc}, GET /sort
\* returns a permutation of all stored records that is non-decreasing in the
\* field for asc and non-increasing for desc, and records of equal field
\* appear in their storage order, for asc and for desc.
C11_SortStable ==
    SortRequest =>
        /\ status = 200
        /\ StablyOrdered(resp, [i \in 1..Len(keys) |-> prev[keys[i]]],
                         req.body.sort_by, req.body.order)

\* A descending sort by height of Asha, Harsh, Ravi stored in this order:
\* Harsh and Ravi, of equal height, come first and in storage order.
C11_Witness ==
    /\ SortRequest
    /\ req.body = [sort_by |-> "height", order |-> "desc"]
    /\ Len(keys) = 3
    /\ prev[keys[1]].name = "Asha"
    /\ prev[keys[2]].name = "Harsh"
    /\ prev[keys[3]].name = "Ravi"
    /\ resp[1].name = "Harsh"
    /\ resp[2].name = "Ravi"
    /\ resp[3].name = "Asha"

\* C12 as stated: for every store whose values have the persisted layout of
\* six fields and no bmi, sorting by bmi succeeds with status 200 and never
\* fails with 500.
C12_BmiSortOfSixFieldValues ==
    (SortRequest /\ req.body.sort_by = "bmi"
        /\ \A id \in DOMAIN prev : DOMAIN prev[id] = Fields) =>
        status = 200

\* C12 as amended: GET /sort?sort_by=bmi orders the records by the bmi stored
\* in each value, which create or edit computed when it saved the value; it
\* succeeds with status 200 when every stored value has a bmi, as every value
\* written by create or edit has, and fails with 500 when a stored value has
\* the six fields only.
C12_BmiSortReadsStoredBmi ==
    (SortRequest /\ req.body.sort_by = "bmi") =>
        /\ status = 200 <=> \A id \in DOMAIN prev : "bmi" \in DOMAIN prev[id]
        /\ status # 200 => status = 500
        /\ status = 200 =>
               StablyOrdered(resp, [i \in 1..Len(keys) |-> prev[keys[i]]],
                             "bmi", req.body.order)

\* A sort by bmi of two values that create wrote, with different bmi.
C12_Witness ==
    /\ SortRequest
    /\ req.body = [sort_by |-> "bmi", order |-> "asc"]
    /\ status = 200
    /\ Len(resp) = 2
    /\ resp[1].bmi < resp[2].bmi
    /\ prev[keys[1]].bmi > prev[keys[2]].bmi

\* C14: after a successful DELETE /delete/{id} the id is no key of the
\* persisted store; the GET /pateints/{id} that follows it immediately is
\* answered 404, and the POST /create with that id that follows it is
\* answered 201 and stores the id again.
C14_DeletedIdIsGone ==
    /\ (req.op = "delete" /\ status = 200) => req.id \notin DOMAIN store
    /\ (after_delete # "" /\ req.id = after_delete) =>
        /\ req.op = "view_pateint" => status = 404
        /\ (req.op = "create" /\ ValidPateint(DictSet(req.body, "id", req.id))) =>
               (status = 201 /\ req.id \in DOMAIN store)

\* A create that succeeds right after the delete of its id.
C14_Witness ==
    /\ after_delete # ""
    /\ req.id = after_delete
    /\ req.op = "create"
    /\ status = 201

\* C15: in every reachable state of the persisted store no stored value has a
\* field id: the id is the key only; an edit neither adds nor removes a key,
\* and the value it writes is stored under the id of the path.
C15_IdIsKeyOnly ==
    /\ \A id \in DOMAIN store : "id" \notin DOMAIN store[id]
    /\ req.op = "edit" => DOMAIN store = DOMAIN prev
    /\ (req.op = "edit" /\ status = 200) => req.id \in DOMAIN store

\* An edit that has changed the value of one id while both ids are stored.
C15_Witness ==
    /\ req.op = "edit"
    /\ status = 200
    /\ DOMAIN store = Ids
    /\ store[req.id] # prev[req.id]
    /\ req.body = Patch([name |-> "Asha"], {})

\* C16: in create and edit, bmi is computed only for a record whose height
\* passed height > 0: no request ends in the ZeroDivisionError of the bmi
\* division, every value that create or edit dumps has height > 0, and an
\* edit that leaves a stored height of 0 or less in place fails in the
\* validation, before the dump.
C16_BmiOnlyOnValidatedHeight ==
    /\ (req.op \in {"create", "edit"} /\ status = 500) =>
            resp.raised # "ZeroDivisionError"
    /\ (req.op = "create" /\ status = 201) => store[req.id].height > 0
    /\ (req.op = "edit" /\ status = 200) => store[req.id].height > 0
    /\ (EditOfExisting /\ MergedOfLastEdit.height <= 0) =>
            (status = 500 /\ resp.raised = "ValidationError")

\* An edit of the weight of a stored record whose height is negative.
C16_Witness ==
    /\ EditOfExisting
    /\ req.body = Patch([weight |-> 50], {})
    /\ prev[req.id].height < 0
    /\ status = 500
    /\ resp.raised = "ValidationError"

\* C17: a create, edit or delete of id changes only the store entry of id:
\* every other key is present after the request iff it was present before,
\* with an identical value; only a successful create adds a key and only a
\* successful delete removes one.
C17_OnlyOwnEntryChanges ==
    /\ \A k \in (DOMAIN prev \cup DOMAIN store) \ {req.id} :
        /\ k \in DOMAIN prev
        /\ k \in DOMAIN store
        /\ store[k] = prev[k]
    /\ DOMAIN store \ DOMAIN prev # {} => (req.op = "create" /\ status = 201)
    /\ DOMAIN prev \ DOMAIN store # {} => (req.op = "delete" /\ status = 200)

\* A create of P002 that has left the value of P001 in place.
C17_Witness ==
    /\ req.op = "create"
    /\ status = 201
    /\ req.id = "P002"
    /\ "P001" \in DOMAIN prev
    /\ store["P001"] = prev["P001"]
    /\ DOMAIN store = Ids

\* The classification the data model gives for a bmi in hundredths.
ClaimedVerdict(b) ==
    IF b < 1850 THEN "Underweight"
    ELSE IF b < 2490 THEN "Normal weight"
    ELSE IF 2500 <= b /\ b < 2990 THEN "Overweight"
    ELSE "Obesity"

\* v carries the bmi of its height and weight, rounded to 2 decimals, and
\* the classification of that bmi.
DerivedFieldsConsistent(v) ==
    /\ NearestHundredth(v.bmi, v)
    /\ v.verdict = ClaimedVerdict(v.bmi)

\* C18: every value that create or edit writes to the store carries a bmi
\* equal to weight / (height/100)^2 of the saved height and weight, rounded
\* to 2 decimals, and the verdict of that bmi; no stored value holds a stale
\* bmi or verdict.
C18_StoredBmiConsistent ==
    /\ (req.op = "create" /\ status = 201) => "bmi" \in DOMAIN store[req.id]
    /\ (req.op = "edit" /\ status = 200) => "bmi" \in DOMAIN store[req.id]
    /\ \A id \in DOMAIN store :
        "bmi" \in DOMAIN store[id] => DerivedFieldsConsistent(store[id])

\* An edit of the height alone that has changed bmi and verdict.
C18_Witness ==
    /\ req.op = "edit"
    /\ status = 200
    /\ req.body = Patch([height |-> 150], {})
    /\ "bmi" \in DOMAIN prev[req.id]
    /\ prev[req.id].height = 180
    /\ store[req.id].bmi # prev[req.id].bmi
    /\ store[req.id].verdict # prev[req.id].verdict

\* Thread t has answered a request.
Finished(t) == thread[t].pc = "idle" /\ thread[t].served > 0

\* Thread t has answered a create, edit or delete with success.
Succeeded(t) ==
    /\ Finished(t)
    /\ \/ thread[t].req.op = "create" /\ thread[t].status = 201
       \/ thread[t].req.op \in {"edit", "delete"} /\ thread[t].status = 200

\* The requests of t and u each loaded the file before the other saved it.
Overlapped(t, u) ==
    /\ thread[t].loaded_at < thread[u].saved_at
    /\ thread[u].loaded_at < thread[t].saved_at

\* The file holds what thread t wrote, whole.
SavedLast(t) == disk.state = "json" /\ thread[t].saved_at = disk.version

\* C13: two mutating requests that each load the store before the other
\* saves it both return success, and when the second save leaves a whole
\* file the store is the effect of the request that saved last on what that
\* request loaded: the effect of the other is lost; of two creates of
\* different ids that both return 201, only the id of the last save is
\* present.
C13_LastWriteWins ==
    \A t, u \in Threads :
        (t # u /\ Succeeded(t) /\ Succeeded(u) /\ Overlapped(t, u) /\ SavedLast(t)) =>
            /\ store = handle(thread[t].req, thread[t].data).file
            /\ (/\ thread[t].req.op = "create"
                /\ thread[u].req.op = "create"
                /\ thread[u].req.id # thread[t].req.id
                /\ thread[u].req.id \notin DOMAIN thread[t].data) =>
                   thread[u].req.id \notin DOMAIN store

\* Two creates of different ids on an empty file, both answered 201, and one
\* id in the file.
C13_Witness ==
    /\ \A t \in Threads :
        Finished(t) /\ thread[t].req.op = "create" /\ thread[t].status = 201
    /\ thread["t1"].req.id = "P001"
    /\ thread["t2"].req.id = "P002"
    /\ thread["t1"].data = EmptyDict
    /\ thread["t2"].data = EmptyDict
    /\ disk.state = "json"
    /\ DOMAIN store = {"P002"}

\* C19: of two POST /create with the same id, the second is answered 400
\* when it loads the file that the first one, answered 201, has written (one
\* after the other); when each loads the file before the other saves, both
\* are answered 201 and a whole file holds the body of the one that saved
\* last.
C19_DuplicateCreateRace ==
    \A t, u \in Threads :
        (/\ t # u
         /\ Finished(t)
         /\ Finished(u)
         /\ thread[t].req.op = "create"
         /\ thread[u].req.op = "create"
         /\ thread[t].req.id = thread[u].req.id) =>
            /\ (/\ thread[t].status = 201
                /\ thread[u].loaded_at = thread[t].saved_at
                /\ thread[u].status # 500) => thread[u].status = 400
            /\ (/\ thread[t].status = 201
                /\ thread[u].status = 201
                /\ Overlapped(t, u)
                /\ SavedLast(t)) =>
                   \A k \in Fields :
                       store[thread[t].req.id][k] = thread[t].req.body[k]

\* Two creates of P001 with different bodies, both answered 201; the file
\* holds the body of t1, which saved last.
C19_Witness ==
    /\ \A t \in Threads :
        Finished(t) /\ thread[t].req.op = "create" /\ thread[t].status = 201
    /\ thread["t1"].req = Request("create", "P001", Asha)
    /\ thread["t2"].req = Request("create", "P001", Harsh)
    /\ thread["t2"].saved_at < thread["t1"].saved_at
    /\ disk.state = "json"
    /\ store["P001"].name = "Asha"

====
